---- MODULE Spec2Model ----
(***************************************************************************)
(* A model of StableRandom (src/stable_random.py): a Mersenne Twister      *)
(* whose state is a list of 624 words and an index, with the sampling      *)
(* methods built on random() and the state transfer methods getstate,      *)
(* setstate and jumpahead.                                                 *)
(*                                                                         *)
(* Python integers are unbounded and the model checker's are 32-bit        *)
(* signed, so a Python integer x >= 0 is held as the pair <<hi, lo>> with  *)
(* x = hi * 65536 + lo and 0 <= lo < 65536.  A 32-bit word is such a pair  *)
(* with hi < 65536.  Small integers (the index, the argument and result of *)
(* _randbelow, the argument of jumpahead) are plain integers.              *)
(***************************************************************************)
EXTENDS Integers, Sequences, FiniteSets, TLC

\* The length of the state list and the twist offset.
N == 624
M == 397

\* The limb radix 2^16 and its byte radix 2^8.
Radix == 65536
Byte == 256

-----------------------------------------------------------------------------
(* Bitwise operators on naturals, byte by byte through tables.             *)

\* The element of a one-element set.  The({e(v) : v \in {x}}) is e(x) with x
\* computed first: how one statement of a method follows another.
The(S) == CHOOSE x \in S : TRUE

RECURSIVE XorBits(_, _)
XorBits(a, b) ==
    IF a = 0 THEN b
    ELSE IF b = 0 THEN a
    ELSE 2 * XorBits(a \div 2, b \div 2) + (((a % 2) + (b % 2)) % 2)

RECURSIVE AndBits(_, _)
AndBits(a, b) ==
    IF a = 0 \/ b = 0 THEN 0
    ELSE 2 * AndBits(a \div 2, b \div 2) + ((a % 2) * (b % 2))

XorTable == [a \in 0..(Byte - 1) |-> [b \in 0..(Byte - 1) |-> XorBits(a, b)]]
AndTable == [a \in 0..(Byte - 1) |-> [b \in 0..(Byte - 1) |-> AndBits(a, b)]]

RECURSIVE XorNat(_, _)
XorNat(a, b) ==
    IF a < Byte /\ b < Byte THEN XorTable[a][b]
    ELSE Byte * XorNat(a \div Byte, b \div Byte) + XorTable[a % Byte][b % Byte]

RECURSIVE AndNat(_, _)
AndNat(a, b) ==
    IF a < Byte /\ b < Byte THEN AndTable[a][b]
    ELSE Byte * AndNat(a \div Byte, b \div Byte) + AndTable[a % Byte][b % Byte]

RECURSIVE Pow2Rec(_)
Pow2Rec(k) == IF k = 0 THEN 1 ELSE 2 * Pow2Rec(k - 1)
Pow2Table == [k \in 0..30 |-> Pow2Rec(k)]
Pow2(k) == Pow2Table[k]

-----------------------------------------------------------------------------
(* Python integers as limb pairs.                                          *)

W(hi, lo) == <<hi, lo>>
Zero32 == W(0, 0)
\* 0xFFFFFFFF, the all-ones word.
AllOnes == W(Radix - 1, Radix - 1)

\* x ^ y, x & y, x + y
Xor(x, y) == <<XorNat(x[1], y[1]), XorNat(x[2], y[2])>>
And(x, y) == <<AndNat(x[1], y[1]), AndNat(x[2], y[2])>>
Add(x, y) ==
    LET s == x[2] + y[2]
    IN  <<x[1] + y[1] + (s \div Radix), s % Radix>>

\* x >> k
RECURSIVE Shr(_, _)
Shr(x, k) ==
    IF k >= 16 THEN Shr(<<x[1] \div Radix, x[1] % Radix>>, k - 16)
    ELSE <<x[1] \div Pow2(k), (x[2] \div Pow2(k)) + ((x[1] % Pow2(k)) * Pow2(16 - k))>>

\* x << k for k < 16 (exact: the high limb takes the bits shifted out)
Shl(x, k) == <<(x[1] * Pow2(k)) + (x[2] \div Pow2(16 - k)), (x[2] * Pow2(k)) % Radix>>

\* The exact product of two 16-bit limbs.
Mul16(a, b) ==
    LET t0 == a * (b % Byte)
        t1 == a * (b \div Byte)
    IN  Add(<<t0 \div Radix, t0 % Radix>>, <<t1 \div Byte, (t1 % Byte) * Byte>>)

\* The 32 least significant bits of x * y.
MulLow32(x, y) ==
    LET p == Mul16(x[2], y[2])
        c == Mul16(x[1] % Radix, y[2])[2] + Mul16(x[2], y[1] % Radix)[2]
    IN  <<(p[1] + c) % Radix, p[2]>>

IsOdd(x) == x[2] % 2 # 0
Is32(x) == x[1] \in 0..(Radix - 1) /\ x[2] \in 0..(Radix - 1)

\* _int32: int(0xFFFFFFFF & x)
_int32(x) == And(AllOnes, x)

-----------------------------------------------------------------------------
(* The Mersenne Twister of the source.                                     *)

\* 1812433253, 0x80000000, 0x7fffffff, 0x9908b0df, 2636928640, 4022730752
InitMultiplier == W(27655, 35173)
UpperMask == W(32768, 0)
LowerMask == W(32767, 65535)
TwistXor == W(39176, 45279)
TemperMaskB == W(40236, 22144)
TemperMaskC == W(61382, 0)

\* One pass of the loop of __init__:
\*   mt[i] = _int32(1812433253 * (mt[i - 1] ^ mt[i - 1] >> 30) + i)
\* (a variant without the + i)
InitStepNoIndex(mt, i) ==
    [mt EXCEPT ![i] = _int32(MulLow32(InitMultiplier, Xor(mt[i - 1], Shr(mt[i - 1], 30))))]
InitStep(mt, i) ==
    [mt EXCEPT ![i] =
        _int32(Add(MulLow32(InitMultiplier, Xor(mt[i - 1], Shr(mt[i - 1], 30))), W(0, i)))]

\* The passes lo .. hi-1 of that loop in order (split in halves, the left half
\* completed before the right one starts).
RECURSIVE InitLoop(_, _, _)
InitLoop(mt, lo, hi) ==
    IF hi = lo + 1 THEN InitStep(mt, lo)
    ELSE LET mid == (lo + hi) \div 2
         IN  The({InitLoop(left, mid, hi) : left \in {InitLoop(mt, lo, mid)}})

\* The list __init__ builds: mt[0] = self._seed, then the recurrence.
InitMt(s) == InitLoop([i \in 0..(N - 1) |-> IF i = 0 THEN s ELSE Zero32], 1, N)

\* One pass of the loop of _twist, in place.
\* (a variant with the two masks exchanged)
TwistStepSwapped(mt, i) ==
    LET y == _int32(Add(And(mt[i], LowerMask), And(mt[(i + 1) % N], UpperMask)))
        v == Xor(mt[(i + M) % N], Shr(y, 1))
    IN  [mt EXCEPT ![i] = IF IsOdd(y) THEN Xor(v, TwistXor) ELSE v]
TwistStep(mt, i) ==
    LET y == _int32(Add(And(mt[i], UpperMask), And(mt[(i + 1) % N], LowerMask)))
        v == Xor(mt[(i + M) % N], Shr(y, 1))
    IN  [mt EXCEPT ![i] = IF IsOdd(y) THEN Xor(v, TwistXor) ELSE v]

\* The passes lo .. hi-1 of the loop of _twist, in order.
RECURSIVE TwistLoop(_, _, _)
TwistLoop(mt, lo, hi) ==
    IF hi = lo + 1 THEN TwistStep(mt, lo)
    ELSE LET mid == (lo + hi) \div 2
         IN  The({TwistLoop(left, mid, hi) : left \in {TwistLoop(mt, lo, mid)}})

Twisted(mt) == TwistLoop(mt, 0, N)

\* The tempering of random().
Temper(y0) ==
    LET y1 == Xor(y0, Shr(y0, 11))
        y2 == Xor(y1, And(Shl(y1, 7), TemperMaskB))
        y3 == Xor(y2, And(Shl(y2, 15), TemperMaskC))
    IN  Xor(y3, Shr(y3, 18))

-----------------------------------------------------------------------------
(* Natural numbers of up to 112 bits: seven limbs, least significant first. *)

BigZero == <<0, 0, 0, 0, 0, 0, 0>>
BigIsZero(b) == b = BigZero
BigIsOdd(b) == b[1] % 2 = 1

\* b * n + c for 0 <= n, c < 2^15, limb by limb with the carry
RECURSIVE MulAddFrom(_, _, _, _)
MulAddFrom(b, n, c, i) ==
    IF i > Len(b) THEN <<>>
    ELSE LET t == (b[i] * n) + c
         IN  <<t % Radix>> \o MulAddFrom(b, n, t \div Radix, i + 1)
BigMulAdd(b, n, c) == MulAddFrom(b, n, c, 1)

\* b \div 2^k
BigShr(b, k) ==
    LET w == k \div 16
        s == k % 16
        at(i) == IF i > Len(b) THEN 0 ELSE b[i]
    IN  <<>> \o [i \in 1..Len(b) |->
                   (at(i + w) \div Pow2(s)) + ((at(i + w + 1) % Pow2(s)) * Pow2(16 - s))]

\* b * 2^k, for a product below 2^112
BigShl(b, k) ==
    LET w == k \div 16
        s == k % 16
        at(i) == IF i < 1 THEN 0 ELSE b[i]
    IN  <<>> \o [i \in 1..Len(b) |->
                   ((at(i - w) % Pow2(16 - s)) * Pow2(s)) + (at(i - w - 1) \div Pow2(16 - s))]

RECURSIVE BitLenNat(_)
BitLenNat(a) == IF a = 0 THEN 0 ELSE 1 + BitLenNat(a \div 2)

RECURSIVE BitLenFrom(_, _)
BitLenFrom(b, i) ==
    IF i = 0 THEN 0
    ELSE IF b[i] # 0 THEN (16 * (i - 1)) + BitLenNat(b[i])
    ELSE BitLenFrom(b, i - 1)
BigBitLen(b) == BitLenFrom(b, Len(b))

-----------------------------------------------------------------------------
(* IEEE 754 binary64 values m * 2^e, as far as random() and _randbelow     *)
(* need them: zero, or a mantissa m of exactly MantBits bits.  Division    *)
(* and multiplication round the exact result to the nearest such value,    *)
(* ties to the even mantissa.                                              *)

MantBits == 53
FZero == [m |-> BigZero, e |-> 0]
\* 1.0 = 2^52 * 2^-52
FOne == [m |-> <<0, 0, 0, 16, 0, 0, 0>>, e |-> -52]

\* The value of p bits nearest to (b + a fraction, nonzero iff sticky) * 2^e.
RoundTo(b, e, sticky, p) ==
    LET len == BigBitLen(b)
    IN  IF len = 0 THEN FZero
        ELSE IF len <= p THEN [m |-> BigShl(b, p - len), e |-> e - (p - len)]
        ELSE LET k == len - (p + 1)
                 g == BigShr(b, k)
                 lost == sticky \/ BigShl(g, k) # b
                 half == BigShr(g, 1)
                 up == BigIsOdd(g) /\ (lost \/ BigIsOdd(half))
                 m == IF up THEN BigMulAdd(half, 1, 1) ELSE half
             IN  IF BigBitLen(m) > p THEN [m |-> BigShr(m, 1), e |-> e + k + 2]
                 ELSE [m |-> m, e |-> e + k + 1]

Geq(x, y) == x[1] > y[1] \/ (x[1] = y[1] /\ x[2] >= y[2])
Sub(x, y) ==
    IF x[2] >= y[2] THEN <<x[1] - y[1], x[2] - y[2]>>
    ELSE <<x[1] - y[1] - 1, (x[2] + Radix) - y[2]>>

\* x * c for a word x and 0 <= c < 2^15
MulSmall(x, c) ==
    LET t == x[2] * c
    IN  <<(x[1] * c) + (t \div Radix), t % Radix>>

\* 2^32, the radix of the long division below.
Radix32 == W(Radix, 0)

\* One step of the long division by d in radix 2^32, for a divisor
\* d = 2^32 - c with a small c >= 0 and a remainder r < d.  As
\* r * 2^32 = r * d + r * c, the next digit of the quotient is r plus the
\* number of times d goes into r * c, and the rest is the next remainder.
RECURSIVE DivFix(_, _, _)
DivFix(d, digit, rest) ==
    IF Geq(rest, d) THEN DivFix(d, Add(digit, W(0, 1)), Sub(rest, d))
    ELSE [digit |-> digit, r |-> rest]
DivStep(d, r) == DivFix(d, r, MulSmall(r, Sub(Radix32, d)[2]))

\* float(x) / float(d) to p bits, for integers 0 <= x < 2^32 and d as above:
\* the integer part of the quotient and three digits of its fraction (so that
\* at least 65 bits of it are known), what is left making it inexact.
FDivTo(x, d, p) ==
    LET d0 == DivFix(d, Zero32, x)
        d1 == DivStep(d, d0.r)
        d2 == DivStep(d, d1.r)
        d3 == DivStep(d, d2.r)
        q == <<d3.digit[2], d3.digit[1], d2.digit[2], d2.digit[1],
               d1.digit[2], d1.digit[1], d0.digit[2]>>
    IN  RoundTo(q, -96, d3.r # Zero32, p)
\* (a variant dividing by d - 1)
FDivOff(x, d) == FDivTo(x, Sub(d, W(0, 1)), MantBits)
FDiv(x, d) == FDivTo(x, d, MantBits)

\* f * float(n) for an integer 0 <= n < 2^15
FMul(f, n) == RoundTo(BigMulAdd(f.m, n, 0), f.e, FALSE, MantBits)

\* int(f) for 0 <= f < 2^31
Trunc(f) ==
    LET t == IF f.e >= 0 THEN BigShl(f.m, f.e) ELSE BigShr(f.m, -f.e)
    IN  t[1] + (t[2] * Radix)

\* int(f * n) for an integer n, |n| < 2^15: the product of a float >= 0 with
\* n < 0 is the negated product with -n, and int() truncates towards zero.
IntOfProduct(f, n) == IF n < 0 THEN -Trunc(FMul(f, -n)) ELSE Trunc(FMul(f, n))

\* f <= 1.0
FLeqOne(f) == f = FZero \/ f = FOne \/ f.e + MantBits <= 0

-----------------------------------------------------------------------------
(* The objects of a run.  A list lives in the heap under an address; a     *)
(* generator object holds the address of its list (self.mt), self.index    *)
(* and self._seed; the caller holds the last tuple getstate() returned.    *)

\* The addresses of the heap.
MaxLists == 4
Addr == 1..MaxLists
NoList == <<>>

\* The argument None of seed() and __init__().
None == <<>>
\* No tuple held by the caller yet.
NoState == [mt |-> 0, index |-> 0]

\* What the drivers below pass in.
Seeds == {W(0, 0), W(1, 4660)}
SeedArgs == Seeds \cup {None}
\* int(time.time() * 256) on 2026-11-06 at 10:00:00 UTC and 1/256 s later
ClockReadings == {W(7007653, 8192), W(7007653, 8193)}
BelowArgs == {-5, 0, 10}
JumpArgs == {0, 700}

VARIABLES
    heap,     \* address -> the list stored there (NoList: none)
    gen,      \* generator name -> [seed, index, mt]: the object's attributes
    saved,    \* the caller's variable holding a tuple (list address, index)
    out,      \* generator name -> what its last call returned and drew
    count,    \* generator name -> the draws and regenerations since __init__
    log,      \* the calls made so far, in order
    budget    \* how many calls the driver makes

vars == <<heap, gen, saved, out, count, log, budget>>

\* The lowest free address: where a new list is put.
Alloc(h) == CHOOSE a \in Addr : h[a] = NoList /\ \A b \in Addr : h[b] = NoList => a <= b

\* The heap once the lists nothing refers to are reclaimed.
Collect(h, g, sv) ==
    LET live == {g[x].mt : x \in DOMAIN g} \cup {sv.mt}
    IN  [a \in Addr |-> IF a \in live THEN h[a] ELSE NoList]

-----------------------------------------------------------------------------
(* The methods.  Each takes the heap h and the object o (self) and gives   *)
(* the heap and the object after the call, the value returned (ret), and   *)
(* for the record the words drawn (raws) and, per draw, whether it         *)
(* regenerated the list (regens).                                          *)

\* seed(): now is what int(time.time() * 256) gives at the call
\* (a variant taking the clock whatever the argument)
seedClock(o, s, now) == [o EXCEPT !.seed = now]
seed(o, s, now) == [o EXCEPT !.seed = IF s = None THEN now ELSE s]

\* __init__(): the object and its new list at address a
__init__(h, a, s, now) ==
    LET o == seed([seed |-> None, index |-> 0, mt |-> 0], s, now)
    IN  [h |-> [h EXCEPT ![a] = InitMt(o.seed)],
         o |-> [o EXCEPT !.index = N, !.mt = a]]

\* _twist(): the list is rewritten in place
\* (a variant leaving the index at 1)
_twistOne(h, o) == [h |-> [h EXCEPT ![o.mt] = Twisted(h[o.mt])], o |-> [o EXCEPT !.index = 1]]
_twist(h, o) == [h |-> [h EXCEPT ![o.mt] = Twisted(h[o.mt])], o |-> [o EXCEPT !.index = 0]]

\* random(), from the tempered word y on: the index moves on and
\* float(_int32(y)) / 0xffffffff is returned
random_return(t, regen, y) ==
    [h |-> t.h, o |-> [t.o EXCEPT !.index = @ + 1],
     ret |-> FDiv(_int32(y), AllOnes), raws |-> <<_int32(y)>>, regens |-> <<regen>>]

\* random(), once the list is regenerated if it had to be (regen)
random_draw(t, regen) == random_return(t, regen, Temper(t.h[t.o.mt][t.o.index]))

\* random()
random(h, o) ==
    random_draw(IF o.index >= N THEN _twist(h, o) ELSE [h |-> h, o |-> o], o.index >= N)

\* _randbelow(n)
\* (a variant returning a value in [1, n], as randint(1, n) does)
_randbelowPlusOne(h, o, n) == [random(h, o) EXCEPT !.ret = 1 + IntOfProduct(@, n)]
_randbelow(h, o, n) == [random(h, o) EXCEPT !.ret = IntOfProduct(@, n)]

\* gauss_next(): the two uniforms x1, x2 it draws, in this order; the value
\* returned, sqrt(-2.0 * log(x1 + 1e-10)) * cos(2.0 * pi * x2), is a function
\* of them that is left uninterpreted.
gauss_pair(r1, r2) ==
    [h |-> r2.h, o |-> r2.o, ret |-> <<r1.ret, r2.ret>>,
     raws |-> r1.raws \o r2.raws, regens |-> r1.regens \o r2.regens]
\* (a variant without the second draw)
gauss_secondSame(r1) == gauss_pair(r1, r1)
gauss_second(r1) == gauss_pair(r1, random(r1.h, r1.o))
gauss_next(h, o) == gauss_second(random(h, o))

\* getstate(): self.mt[:] is a new list at address a
\* (variants: one returning index 0, one returning self.mt itself)
getstateStale(h, o, a) ==
    [h |-> [h EXCEPT ![a] = h[o.mt]], o |-> o, ret |-> [mt |-> a, index |-> 0],
     raws |-> <<>>, regens |-> <<>>]
getstateAlias(h, o, a) ==
    [h |-> h, o |-> o, ret |-> [mt |-> o.mt, index |-> o.index],
     raws |-> <<>>, regens |-> <<>>]
getstate(h, o, a) ==
    [h |-> [h EXCEPT ![a] = h[o.mt]], o |-> o, ret |-> [mt |-> a, index |-> o.index],
     raws |-> <<>>, regens |-> <<>>]

\* setstate(state): self.mt, self.index = state
setstate(h, o, state) ==
    [h |-> h, o |-> [o EXCEPT !.mt = state.mt, !.index = state.index],
     ret |-> None, raws |-> <<>>, regens |-> <<>>]

\* jumpahead(n)
\* (variants: one wrapping the index, one a step too far, one without the draw)
jumpaheadWrap(h, o, n) == random(h, [o EXCEPT !.index = (@ + n) % N])
jumpaheadOffByOne(h, o, n) == random(h, [o EXCEPT !.index = @ + n + 1])
jumpaheadNoDraw(h, o, n) ==
    [h |-> h, o |-> [o EXCEPT !.index = @ + n], ret |-> None, raws |-> <<>>, regens |-> <<>>]
jumpahead(h, o, n) == random(h, [o EXCEPT !.index = @ + n])

-----------------------------------------------------------------------------
(* The calls of a driver.  A driver holds the generator "rand" and, in the *)
(* twin runs, a second generator "twin" on which it repeats every call it  *)
(* makes on "rand" (first on "rand", then on "twin").                      *)

\* What a call that ended as r leaves in out: the kind of value returned
\* ("float", "int", "floats", "state", "none"; "error" were an exception
\* raised), the value, and the draws of the call.
Out(kind, r) ==
    [kind |-> kind,
     floats |-> IF kind = "float" THEN <<r.ret>> ELSE IF kind = "floats" THEN r.ret ELSE <<>>,
     int |-> IF kind = "int" THEN r.ret ELSE 0,
     raws |-> r.raws, regens |-> r.regens]
NoOut == [kind |-> "none", floats |-> <<>>, int |-> 0, raws |-> <<>>, regens |-> <<>>]

Cur == [heap |-> heap, gen |-> gen, out |-> out, count |-> count]

\* The run p after a call on g that ended as r, returning a value of this kind.
Done(p, g, kind, r) ==
    [heap |-> r.h,
     gen |-> [p.gen EXCEPT ![g] = r.o],
     out |-> [p.out EXCEPT ![g] = Out(kind, r)],
     count |-> [p.count EXCEPT ![g] =
                  [draws |-> @.draws + Len(r.raws),
                   twists |-> @.twists + Cardinality({i \in DOMAIN r.regens : r.regens[i]})]]]

CallRandom(p, g) == Done(p, g, "float", random(p.heap, p.gen[g]))

CallRandBelow(p, g, n) == Done(p, g, "int", _randbelow(p.heap, p.gen[g], n))

CallGaussNext(p, g) == Done(p, g, "floats", gauss_next(p.heap, p.gen[g]))

CallJumpAhead(p, g, n) == Done(p, g, "none", jumpahead(p.heap, p.gen[g], n))

\* (a variant building the list anew from the seed, as __init__ does)
CallSeedFresh(p, g, s, now) ==
    Done(p, g, "none", [h |-> __init__(p.heap, p.gen[g].mt, s, now).h,
                        o |-> __init__(p.heap, p.gen[g].mt, s, now).o,
                        ret |-> None, raws |-> <<>>, regens |-> <<>>])
CallSeed(p, g, s, now) ==
    Done(p, g, "none", [h |-> p.heap, o |-> seed(p.gen[g], s, now), ret |-> None,
                        raws |-> <<>>, regens |-> <<>>])

CallSetState(p, g, state) == Done(p, g, "none", setstate(p.heap, p.gen[g], state))

\* g.op(n)
Call(p, g, op, n) ==
    CASE op = "random" -> CallRandom(p, g)
      [] op = "_randbelow" -> CallRandBelow(p, g, n)
      [] op = "gauss_next" -> CallGaussNext(p, g)
      [] op = "jumpahead" -> CallJumpAhead(p, g, n)

\* The call on "rand" and then, in a twin run, on "twin".
Both(p, op, n) ==
    IF "twin" \in DOMAIN p.gen
    THEN The({Call(p1, "twin", op, n) : p1 \in {Call(p, "rand", op, n)}})
    ELSE Call(p, "rand", op, n)

\* The next state: the run p, the caller's tuple sv, the call logged.
Commit(p, sv, call) ==
    /\ heap' = Collect(p.heap, p.gen, sv)
    /\ gen' = p.gen
    /\ out' = p.out
    /\ count' = p.count
    /\ saved' = sv
    /\ log' = Append(log, call)
    /\ budget' = budget

\* rand.random()
Random ==
    /\ Len(log) < budget
    /\ Commit(Both(Cur, "random", 0), saved, <<"random", 0>>)

\* rand._randbelow(n)
RandBelow ==
    /\ Len(log) < budget
    /\ \E n \in BelowArgs :
         Commit(Both(Cur, "_randbelow", n), saved, <<"_randbelow", n>>)

\* rand.gauss_next()
GaussNext ==
    /\ Len(log) < budget
    /\ Commit(Both(Cur, "gauss_next", 0), saved, <<"gauss_next", 0>>)

\* rand.jumpahead(n)
JumpAhead ==
    /\ Len(log) < budget
    /\ \E n \in JumpArgs :
         Commit(Both(Cur, "jumpahead", n), saved, <<"jumpahead", n>>)

\* rand.jumpahead(n) for a short and for a very long distance n
SkipArgs == {1, 3, 2000}
JumpBy ==
    /\ Len(log) < budget
    /\ \E n \in SkipArgs :
         Commit(Both(Cur, "jumpahead", n), saved, <<"jumpahead", n>>)

\* rand.seed(s)
Seed ==
    /\ Len(log) < budget
    /\ \E s \in SeedArgs, now \in ClockReadings :
         Commit(CallSeed(Cur, "rand", s, now), saved, <<"seed", 0>>)

\* saved = rand.getstate()
GetState ==
    /\ Len(log) < budget
    /\ LET r == getstate(heap, gen["rand"], Alloc(heap))
       IN  Commit(Done(Cur, "rand", "state", r), r.ret, <<"getstate", 0>>)

\* rand.setstate(saved)
SetState ==
    /\ Len(log) < budget
    /\ saved # NoState
    /\ Commit(CallSetState(Cur, "rand", saved), saved, <<"setstate", 0>>)

\* saved[0][j] = v: the caller writes into the list it was given
MutIndexes == {0, 1}
MutWords == {W(0, 0)}
MutateSaved ==
    /\ Len(log) < budget
    /\ saved # NoState
    /\ \E j \in MutIndexes, v \in MutWords :
         /\ heap[saved.mt][j] # v
         /\ Commit([Cur EXCEPT !.heap[saved.mt][j] = v], saved, <<"mutate", j>>)

\* 0x12DD9BB3, the word that tempers to 0xFFFFFFFF, and 0x02FFDF7A, the word
\* that tempers to 0xFFFFFFFE
CraftWords == {W(4829, 39859), W(767, 57210)}
CraftIndexes == {0, 623}
\* rand.setstate(([w] * 624, i)): a state the caller builds
SetStateOf ==
    /\ Len(log) < budget
    /\ \E w \in CraftWords, i \in CraftIndexes :
         LET a == Alloc(heap)
             h == [heap EXCEPT ![a] = [j \in 0..(N - 1) |-> w]]
         IN  Commit(CallSetState([Cur EXCEPT !.heap = h], "rand", [mt |-> a, index |-> i]),
                    saved, <<"setstate_of", i>>)

\* rand.setstate(rand.getstate())
RoundTrip ==
    /\ Len(log) < budget
    /\ LET r == getstate(heap, gen["rand"], Alloc(heap))
       IN  Commit(CallSetState([Cur EXCEPT !.heap = r.h], "rand", r.ret), saved,
                  <<"roundtrip", 0>>)

-----------------------------------------------------------------------------
(* The drivers.                                                            *)

\* How many calls each driver makes.
MaxSteps == 2
MaxTwinSteps == 3
MaxDraws == 1250
MaxExportSteps == 3
MaxRestoreSteps == 3
MaxJumpSteps == 2
MaxReseedSteps == 3

EmptyHeap == [a \in Addr |-> NoList]

\* rand = StableRandom(s), and twin = StableRandom(s2) for a twin run
Start(s, now, b) ==
    LET r == __init__(EmptyHeap, 1, s, now)
    IN  /\ heap = r.h
        /\ gen = [g \in {"rand"} |-> r.o]
        /\ saved = NoState
        /\ out = [g \in {"rand"} |-> NoOut]
        /\ count = [g \in {"rand"} |-> [draws |-> 0, twists |-> 0]]
        /\ log = <<>>
        /\ budget = b

StartTwin(s, now1, now2, b) ==
    LET r1 == __init__(EmptyHeap, 1, s, now1)
        r2 == __init__(r1.h, 2, s, now2)
    IN  /\ heap = r2.h
        /\ gen = [g \in {"rand", "twin"} |-> IF g = "rand" THEN r1.o ELSE r2.o]
        /\ saved = NoState
        /\ out = [g \in {"rand", "twin"} |-> NoOut]
        /\ count = [g \in {"rand", "twin"} |-> [draws |-> 0, twists |-> 0]]
        /\ log = <<>>
        /\ budget = b

\* Any calls on one generator, constructed with a seed or with None.
Init == \E s \in SeedArgs, now \in ClockReadings : Start(s, now, MaxSteps)
Next ==
    \/ Random
    \/ RandBelow
    \/ GaussNext
    \/ JumpAhead
    \/ Seed
    \/ GetState
    \/ SetState
    \/ SetStateOf
    \/ MutateSaved
Spec == Init /\ [][Next]_vars

\* Two generators constructed with the same seed and given the same calls,
\* "rand" in addition passing its own state through getstate and setstate.
InitTwin ==
    \E s \in Seeds, now1 \in ClockReadings, now2 \in ClockReadings :
        StartTwin(s, now1, now2, MaxTwinSteps)
NextTwin ==
    \/ Random
    \/ RandBelow
    \/ GaussNext
    \/ JumpAhead
    \/ RoundTrip
SpecTwin == InitTwin /\ [][NextTwin]_vars

\* A freshly seeded generator driven only by random().
InitDraws == \E s \in Seeds, now \in ClockReadings : Start(s, now, MaxDraws)
NextDraws == Random
SpecDraws == InitDraws /\ [][NextDraws]_vars

\* A generator whose state the caller exports, and writes into the lists it gets.
InitExport == \E s \in Seeds, now \in ClockReadings : Start(s, now, MaxExportSteps)
NextExport ==
    \/ Random
    \/ JumpAhead
    \/ GetState
    \/ MutateSaved
SpecExport == InitExport /\ [][NextExport]_vars

\* A generator whose state the caller exports, restores, and writes into.
InitRestore == \E s \in Seeds, now \in ClockReadings : Start(s, now, MaxRestoreSteps)
NextRestore ==
    \/ Random
    \/ JumpAhead
    \/ GetState
    \/ SetState
    \/ MutateSaved
SpecRestore == InitRestore /\ [][NextRestore]_vars

\* A generator, freshly seeded or given a state the caller built, that draws
\* and jumps.
InitJump == \E s \in Seeds, now \in ClockReadings : Start(s, now, MaxJumpSteps)
NextJump ==
    \/ Random
    \/ JumpAhead
    \/ JumpBy
    \/ SetStateOf
SpecJump == InitJump /\ [][NextJump]_vars

\* Two generators constructed with the same seed and given the same calls,
\* "rand" in addition being re-seeded.
InitReseed ==
    \E s \in Seeds, now1 \in ClockReadings, now2 \in ClockReadings :
        StartTwin(s, now1, now2, MaxReseedSteps)
NextReseed ==
    \/ Random
    \/ JumpAhead
    \/ Seed
SpecReseed == InitReseed /\ [][NextReseed]_vars

-----------------------------------------------------------------------------
(* The claims.                                                             *)

\* The last call made (<<"none", 0>> before any), and the methods called.
LastCall == IF log = <<>> THEN <<"none", 0>> ELSE log[Len(log)]
Ops == {log[i][1] : i \in DOMAIN log}

\* The calls that draw.
Draws == {"random", "_randbelow", "gauss_next", "jumpahead"}

\* What is seen of generator g: what its last call returned and drew, the
\* contents of its list and its index.
Observable(g) == [out |-> out[g], mt |-> heap[gen[g].mt], index |-> gen[g].index]

\* C1: once "rand" has passed its state through setstate(getstate()), at any
\* point of the run, every later call returns and draws on "rand" what it does
\* on "twin", which made the same calls without the round trip, and the two
\* are left with the same list contents and the same index.
C1_RoundTripKeepsSequence ==
    "roundtrip" \in Ops =>
        /\ heap[gen["rand"].mt] = heap[gen["twin"].mt]
        /\ gen["rand"].index = gen["twin"].index
        /\ LastCall[1] \in Draws => out["rand"] = out["twin"]

\* A round trip followed by calls that regenerate the list twice.
C1_RoundTripThenRegenerations ==
    /\ Len(log) >= 3
    /\ log[1][1] = "roundtrip"
    /\ count["rand"].twists >= 2
    /\ out["rand"].raws # <<>>

\* C2: _randbelow(n) with n > 0 returns a value in [0, n), never n.
C2_BelowInRange ==
    (LastCall[1] = "_randbelow" /\ LastCall[2] > 0)
        => out["rand"].int \in 0..(LastCall[2] - 1)

\* C3: _randbelow(n) with n <= 0 raises and returns no value.
C3_NonPositiveBoundFails ==
    (LastCall[1] = "_randbelow" /\ LastCall[2] <= 0) => out["rand"].kind = "error"

\* C4: two generators constructed with the same seed and given the same calls
\* (random, _randbelow, gauss_next, jumpahead) return and draw the same at
\* every step, and hold the same list contents and index after it.
C4_TwinsAgree ==
    "roundtrip" \notin Ops => Observable("rand") = Observable("twin")

\* Three calls on both, a gauss_next, a jumpahead and a _randbelow among them.
C4_TwinsDriven ==
    /\ Len(log) >= 3
    /\ Ops = {"gauss_next", "jumpahead", "_randbelow"}
    /\ count["twin"].draws = 4

\* C5: every element of the list of a generator is in 0 .. 0xFFFFFFFF, in
\* every state from construction on, however the generator was constructed.
C5_StateWords32 ==
    \A g \in DOMAIN gen : \A i \in 0..(N - 1) : Is32(heap[gen[g].mt][i])

\* A step by a call that draws, taken at index 624, regenerates the list
\* before its first draw, which returns the tempered element 0 of the
\* regenerated list.
RegeneratesAt624 ==
    (gen["rand"].index = N /\ log' # log /\ log'[Len(log')][1] \in Draws)
        => /\ out'["rand"].regens # <<>>
           /\ out'["rand"].regens[1]
           /\ out'["rand"].raws[1] = Temper(Twisted(heap[gen["rand"].mt])[0])

\* C6: between calls the index is in 0 .. 624, and a call that draws when the
\* index is 624 regenerates the list before it returns a value.
C6_CursorInvariant ==
    [](gen["rand"].index \in 0..N) /\ [][RegeneratesAt624]_vars

\* A draw made at index 624 that regenerated the list, and one that brought
\* the index to 624.
C6_DrawnAcrossRegeneration ==
    /\ out["rand"].regens # <<>>
    /\ out["rand"].regens[1]
    /\ gen["rand"].index \in 1..N

\* The list of a generator seeded with s after k regenerations.
RECURSIVE TwistedTimes(_, _)
TwistedTimes(mt, k) == IF k = 0 THEN mt ELSE Twisted(TwistedTimes(mt, k - 1))
TwistedArrays ==
    {<<s, k, TwistedTimes(InitMt(s), k)>> : s \in Seeds, k \in 1..((MaxDraws + N - 1) \div N)}
TwistedArray(s, k) == (CHOOSE t \in TwistedArrays : t[1] = s /\ t[2] = k)[3]

\* C7: of a freshly seeded generator driven by random() alone, draw number d
\* regenerates the list exactly when d = 624 * k + 1, and returns the
\* tempered element (d - 1) % 624 of the list as it is after
\* (d - 1) \div 624 + 1 regenerations.
C7_RegenerationBoundary ==
    LET d == count["rand"].draws
        k == ((d - 1) \div N) + 1
    IN  d >= 1 =>
            /\ out["rand"].regens = <<(d - 1) % N = 0>>
            /\ count["rand"].twists = k
            /\ out["rand"].raws = <<Temper(TwistedArray(gen["rand"].seed, k)[(d - 1) % N])>>

\* Draw 625: the second regeneration.
C7_Draw625 ==
    /\ count["rand"].draws = N + 1
    /\ count["rand"].twists = 2
    /\ out["rand"].regens = <<TRUE>>

\* A getstate() step returns a list of its own with the contents of the
\* generator's and the generator's index, leaving the generator as it was; a
\* step writing into the list returned changes neither the generator's list
\* nor its index; and a step drawing from the generator changes neither the
\* list returned nor the index returned with it.
ExportIsCopy ==
    LET op == log'[Len(log')][1]
    IN  log' # log =>
            /\ op = "getstate" =>
                  /\ saved'.mt # gen'["rand"].mt
                  /\ heap'[saved'.mt] = heap[gen["rand"].mt]
                  /\ saved'.index = gen["rand"].index
                  /\ gen' = gen
                  /\ heap'[gen["rand"].mt] = heap[gen["rand"].mt]
            /\ op = "mutate" =>
                  /\ gen' = gen
                  /\ heap'[gen["rand"].mt] = heap[gen["rand"].mt]
            /\ (op \in Draws /\ saved # NoState) =>
                  /\ saved' = saved
                  /\ heap'[saved.mt] = heap[saved.mt]

\* C8: the list getstate() returns is a copy, independent of the generator's
\* in both directions: every step of a run is as ExportIsCopy says.
C8_ExportIsCopy == [][ExportIsCopy]_vars

\* A state exported, written into, and the generator then regenerated.
C8_ExportedMutatedDrawn ==
    /\ Len(log) >= 3
    /\ log[1][1] = "getstate"
    /\ log[2][1] = "mutate"
    /\ log[3][1] \in Draws
    /\ heap[saved.mt] # heap[gen["rand"].mt]

SeedZeroSecondDraw ==
    /\ gen["rand"].seed = W(0, 0)
    /\ log = <<<<"random", 0>>, <<"_randbelow", 10>>>>

\* C10, as amended: on a generator constructed with seed 0, after one
\* random(), _randbelow(10) returns 5.
C10_SecondDrawBelowTenIsFive == SeedZeroSecondDraw => out["rand"].int = 5

\* C10, as stated: that call returns 6.
C10_SecondDrawBelowTenIsSix == SeedZeroSecondDraw => out["rand"].int = 6

\* That call, made on the second word drawn, 2546248239.
C10_SecondDrawMade ==
    /\ SeedZeroSecondDraw
    /\ out["rand"].kind = "int"
    /\ out["rand"].raws = <<W(38852, 43567)>>

\* a <= b for two integers of as many limbs
RECURSIVE BigLeqFrom(_, _, _)
BigLeqFrom(a, b, i) ==
    IF i = 0 THEN TRUE
    ELSE IF a[i] # b[i] THEN a[i] < b[i]
    ELSE BigLeqFrom(a, b, i - 1)
BigLeq(a, b) == BigLeqFrom(a, b, Len(a))

\* The integer written in decimal as the groups of four digits ds.
RECURSIVE Decimal(_)
Decimal(ds) ==
    IF ds = <<>> THEN BigZero
    ELSE BigMulAdd(Decimal(SubSeq(ds, 1, Len(ds) - 1)), 10000, ds[Len(ds)])

\* |f - 0.5488135024320365| <= 1e-12 for a float f = m * 2^-53, in integers:
\* (5488135024320365 - 10^4) * 2^53 <= m * 10^16 <= (5488135024320365 + 10^4) * 2^53
NearDocumentedFirst(f) ==
    LET scaled == BigMulAdd(BigMulAdd(BigMulAdd(BigMulAdd(f.m, 10000, 0), 10000, 0),
                                      10000, 0), 10000, 0)
    IN  /\ f.e = -MantBits
        /\ BigLeq(BigShl(Decimal(<<5488, 1350, 2431, 365>>), MantBits), scaled)
        /\ BigLeq(scaled, BigShl(Decimal(<<5488, 1350, 2433, 365>>), MantBits))

\* StableRandom(0), then one random().
SeedZeroFirstDraw ==
    /\ gen["rand"].seed = W(0, 0)
    /\ log = <<<<"random", 0>>>>

\* C11: on a generator constructed with seed 0 the first random() draws the
\* tempered element 0 of the first regeneration of the list the recurrence
\* of __init__ builds from 0, and returns that word / 0xFFFFFFFF, which is
\* within 1e-12 of 0.5488135024320365.
C11_FirstDrawOfSeedZero ==
    SeedZeroFirstDraw =>
        /\ out["rand"].raws = <<Temper(TwistedArray(W(0, 0), 1)[0])>>
        /\ out["rand"].floats = <<FDiv(out["rand"].raws[1], AllOnes)>>
        /\ NearDocumentedFirst(out["rand"].floats[1])

\* That call, made: it drew 2357136044.
C11_FirstDrawMade ==
    /\ SeedZeroFirstDraw
    /\ out["rand"].kind = "float"
    /\ out["rand"].raws = <<W(35967, 2732)>>

\* Element i of a regeneration pass with the places it reads named: old is
\* the list before the pass, cur the list as the passes 0 .. i-1 left it.
\* state[i] is read from old; state[i + 1] from old, and for i = 623, where
\* it is state[0], from old if wrapOld and from cur if not; state[(i + 397)
\* mod 624] from old for i < 227 and from cur for i >= 227.
ReadOrderStep(old, cur, i, wrapOld) ==
    LET next == IF i + 1 < N THEN old[i + 1] ELSE IF wrapOld THEN old[0] ELSE cur[0]
        third == IF i < N - M THEN old[i + M] ELSE cur[(i + M) - N]
        y == _int32(Add(And(old[i], UpperMask), And(next, LowerMask)))
        v == Xor(third, Shr(y, 1))
    IN  [cur EXCEPT ![i] = IF IsOdd(y) THEN Xor(v, TwistXor) ELSE v]
RECURSIVE ReadOrderLoop(_, _, _, _, _)
ReadOrderLoop(old, cur, lo, hi, wrapOld) ==
    IF hi = lo + 1 THEN ReadOrderStep(old, cur, lo, wrapOld)
    ELSE LET mid == (lo + hi) \div 2
         IN  The({ReadOrderLoop(old, left, mid, hi, wrapOld) :
                    left \in {ReadOrderLoop(old, cur, lo, mid, wrapOld)}})
ReadOrder(old, wrapOld) == ReadOrderLoop(old, old, 0, N, wrapOld)

\* A step by a call that regenerated the list.
Regenerated ==
    /\ log' # log
    /\ log'[Len(log')][1] \in Draws
    /\ \E i \in DOMAIN out'["rand"].regens : out'["rand"].regens[i]

\* C12, as amended: in a regeneration pass y for element i is computed from
\* the values state[i] and state[i + 1] had before the pass for i in 0..622,
\* and for i = 623 from the value of state[623] before the pass and the value
\* of state[0] already written in this pass; the third operand
\* state[(i + 397) mod 624] is the value before the pass for i < 227 and the
\* value already written in this pass for i >= 227.
C12_TwistReadOrder ==
    [][Regenerated => heap'[gen'["rand"].mt] = ReadOrder(heap[gen["rand"].mt], FALSE)]_vars

\* C12, as stated: y is computed from the values before the pass for every
\* i in 0..623, i = 623 with state[0] included.
C12_TwistReadsPrePass ==
    [][Regenerated => heap'[gen'["rand"].mt] = ReadOrder(heap[gen["rand"].mt], TRUE)]_vars

\* The list of StableRandom(0) after its first regeneration, where the two
\* readings of state[0] in the pass of element 623 give different lists.
C12_FirstRegeneration ==
    /\ gen["rand"].seed = W(0, 0)
    /\ Len(log) = 1
    /\ out["rand"].regens # <<>>
    /\ out["rand"].regens[1]
    /\ heap[gen["rand"].mt] = ReadOrder(InitMt(W(0, 0)), FALSE)
    /\ heap[gen["rand"].mt] # ReadOrder(InitMt(W(0, 0)), TRUE)

\* After setstate(s) the generator's list is a list of its own, not the
\* caller's; a step drawing from the generator leaves the caller's list and
\* index as they were; and a step writing into the caller's list leaves the
\* generator's list and index as they were.
OwnedAfterRestore ==
    LET op == log'[Len(log')][1]
    IN  log' # log =>
            /\ op = "setstate" => gen'["rand"].mt # saved'.mt
            /\ (op \in Draws /\ saved # NoState) =>
                  /\ saved' = saved
                  /\ heap'[saved.mt] = heap[saved.mt]
            /\ op = "mutate" =>
                  /\ gen' = gen
                  /\ heap'[gen["rand"].mt] = heap[gen["rand"].mt]

\* C13: after setstate(s) the generator owns its list exclusively: it is not
\* shared with the caller's s, draws and regenerations leave s unchanged, and
\* writing into s leaves the generator unchanged.
C13_ExclusiveOwnership == [][OwnedAfterRestore]_vars

\* A step by jumpahead(n), taken at index c.
JumpStep(c, n) ==
    /\ log' # log
    /\ log'[Len(log')] = <<"jumpahead", n>>
    /\ gen["rand"].index = c

\* What jumpahead(n) at index c does: below 624 it leaves the list alone and
\* the index at c + n + 1; from 624 on it regenerates the list once and
\* leaves the index at 1.
JumpEffect(c, n) ==
    LET mt == gen["rand"].mt
        twists == count'["rand"].twists - count["rand"].twists
    IN  /\ gen'["rand"].mt = mt
        /\ twists <= 1
        /\ c + n < N =>
              /\ twists = 0
              /\ heap'[mt] = heap[mt]
              /\ gen'["rand"].index = c + n + 1
        /\ c + n >= N =>
              /\ twists = 1
              /\ heap'[mt] = Twisted(heap[mt])
              /\ gen'["rand"].index = 1

\* C14: jumpahead(n), n >= 0, at an index c in 0..624 regenerates at most
\* once however large n is: not at all when c + n < 624, leaving the index at
\* c + n + 1, and exactly once when c + n >= 624, leaving the index at 1.
C14_JumpEffect ==
    [][\A c \in 0..N, n \in JumpArgs \cup SkipArgs : JumpStep(c, n) => JumpEffect(c, n)]_vars

\* A jump of 2000, more than three lists long, made at index 1 with one
\* regeneration.
C14_LongJumpMade ==
    /\ Len(log) = 2
    /\ log[1] = <<"random", 0>>
    /\ log[2] = <<"jumpahead", 2000>>
    /\ count["rand"].twists = 2
    /\ gen["rand"].index = 1

\* A gauss_next() step leaves the list and the index as two random() calls
\* in a row leave them, with x1 what the first returns and x2 what the second
\* returns, and no other word drawn.
GaussIsTwoDraws ==
    LET mt == gen["rand"].mt
        r1 == random(heap, gen["rand"])
        r2 == random(r1.h, r1.o)
    IN  (log' # log /\ log'[Len(log')][1] = "gauss_next") =>
            /\ gen'["rand"].mt = mt
            /\ heap'[mt] = r2.h[mt]
            /\ gen'["rand"].index = r2.o.index
            /\ out'["rand"].floats = <<r1.ret, r2.ret>>
            /\ out'["rand"].raws = r1.raws \o r2.raws
            /\ count'["rand"].draws = count["rand"].draws + 2

\* C15: gauss_next() leaves list and index as exactly two successive draws
\* from the same state do, a regeneration by either of them included; x1 is
\* the first draw and x2 the second.
C15_GaussIsTwoDraws == [][GaussIsTwoDraws]_vars

\* A gauss_next() made at index 623: its second draw regenerated the list.
C15_SecondDrawRegenerated ==
    /\ Len(log) = 2
    /\ log[1] = <<"setstate_of", 623>>
    /\ log[2] = <<"gauss_next", 0>>
    /\ out["rand"].regens = <<FALSE, TRUE>>
    /\ gen["rand"].index = 1

\* The heap and the object after k random() calls in a row.
RECURSIVE DrawTimes(_, _, _)
DrawTimes(h, o, k) ==
    IF k = 0 THEN [h |-> h, o |-> o]
    ELSE LET r == random(h, o)
         IN  DrawTimes(r.h, r.o, k - 1)

\* A jumpahead(n) step taken at index c leaves list and index as n + 1
\* random() calls in a row leave them.
JumpIsDraws(c, n) ==
    LET mt == gen["rand"].mt
        r == DrawTimes(heap, gen["rand"], n + 1)
    IN  /\ gen'["rand"].mt = mt
        /\ heap'[mt] = r.h[mt]
        /\ gen'["rand"].index = r.o.index

\* C16: for an index c and n >= 0 with c + n <= 624, jumpahead(n) leaves
\* list and index as n + 1 successive draws from the same state do;
\* jumpahead(0) is one discarded draw.
C16_JumpIsSkip ==
    [][\A c \in 0..N, n \in JumpArgs \cup SkipArgs :
          (JumpStep(c, n) /\ c + n <= N) => JumpIsDraws(c, n)]_vars

\* jumpahead(1) made at index 623, where c + n = 624: it regenerated the
\* list, as the second of two draws does.
C16_SkipToBoundary ==
    /\ Len(log) = 2
    /\ log[1] = <<"setstate_of", 623>>
    /\ log[2] = <<"jumpahead", 1>>
    /\ out["rand"].regens = <<TRUE>>
    /\ gen["rand"].index = 1

\* C17: seed(x) on a constructed generator leaves its list and its index as
\* they were: after it "rand" holds the list contents and index of "twin",
\* which was not re-seeded, and every later draw returns on "rand" what it
\* returns on "twin"; re-seeded with an x other than the seed it was
\* constructed with, its next draw is not the first draw of StableRandom(x).
C17_ReseedKeepsState ==
    "seed" \in Ops =>
        /\ heap[gen["rand"].mt] = heap[gen["twin"].mt]
        /\ gen["rand"].index = gen["twin"].index
        /\ LastCall[1] \in Draws => out["rand"] = out["twin"]
        /\ (/\ log = <<<<"seed", 0>>, <<"random", 0>>>>
            /\ gen["rand"].seed \in Seeds
            /\ gen["rand"].seed # gen["twin"].seed)
              => out["rand"].raws # <<Temper(TwistedArray(gen["rand"].seed, 1)[0])>>

\* A generator re-seeded with another seed right after construction, then
\* drawn from.
C17_ReseededThenDrawn ==
    /\ log = <<<<"seed", 0>>, <<"random", 0>>>>
    /\ gen["rand"].seed \in Seeds
    /\ gen["rand"].seed # gen["twin"].seed
    /\ out["rand"].raws # <<>>

====
